---- MODULE Spec2Model ----
(***************************************************************************)
(* A model of src/app.py: the Huffman codec (frequency table, tree, code   *)
(* table, bit packing, container format) and the two Flask handlers that   *)
(* run it over temporary files.                                            *)
(*                                                                         *)
(* Representation.  A character is its code point (97 is 'a'); a text, a   *)
(* file and a container are sequences of code points / bytes.  A string of *)
(* '0' and '1' characters (encoded_text, a code) is a sequence over {0,1}; *)
(* where the program writes such a string into the table literal the bits  *)
(* become the characters 48 and 49.  A HuffmanNode is a record: a leaf has *)
(* the fields char and freq (left = right = None), a merged node has freq, *)
(* left and right (char = None).  A dict is the sequence of its items in   *)
(* insertion order.                                                        *)
(***************************************************************************)
EXTENDS Integers, Sequences, FiniteSets, TLC

VARIABLES
    \* codec run: compress_file, then decompress_file on what was written
    text, pc, frequency, huffman_tree, huffman_codes, container, err, upload, output,
    \* bit-level run: pad_encoded_text .. decode_text on a free bit-string
    bits, bpc, padded, byte_array, bit_string, unpadded, table, decoded,
    \* web run: the temp directory and the requests in flight
    fs, req

codecVars == <<text, pc, frequency, huffman_tree, huffman_codes, container, err, upload, output>>
bitVars == <<bits, bpc, padded, byte_array, bit_string, unpadded, table, decoded>>
webVars == <<fs, req>>
vars == <<codecVars, bitVars, webVars>>

(***************************************************************************)
(* Bounds of the model.                                                    *)
(***************************************************************************)
NumSymbols == 3
MaxLen == 4
MaxBits == 9
MaxFreq == 3
NumRequests == 2

Symbols == 97 .. (96 + NumSymbols)
Texts == UNION {[1..n -> Symbols] : n \in 0..MaxLen}
BitStrings == UNION {[1..n -> {0, 1}] : n \in 0..MaxBits}
FreqTables == UNION {[S -> 1..MaxFreq] : S \in SUBSET Symbols}

(***************************************************************************)
(* Helpers for Python's built-ins.                                         *)
(***************************************************************************)
Range(s) == {s[i] : i \in DOMAIN s}

\* s[:k] for 0 <= k
Take(s, k) == SubSeq(s, 1, IF k < Len(s) THEN k ELSE Len(s))

\* s[k:] for 0 <= k
Drop(s, k) == SubSeq(s, k + 1, Len(s))

\* '0' * n
Zeros(n) == [i \in 1..n |-> 0]

RECURSIVE Pow2(_)
Pow2(n) == IF n = 0 THEN 1 ELSE 2 * Pow2(n - 1)

\* f"{n:08b}" and bin(n)[2:].rjust(8, '0'), for 0 <= n < 256
Bin8(n) == [i \in 1..8 |-> (n \div Pow2(8 - i)) % 2]

\* int(s, 2) for a non-empty string of binary digits
RECURSIVE Int2(_)
Int2(s) == IF s = <<>> THEN 0 ELSE 2 * Int2(SubSeq(s, 1, Len(s) - 1)) + s[Len(s)]

\* int.to_bytes(4, 'big')
ToBytes4(n) == [i \in 1..4 |-> (n \div Pow2(8 * (4 - i))) % 256]

\* int.from_bytes(b, 'big'), for any number of bytes (0 for none)
RECURSIVE FromBytes(_)
FromBytes(b) == IF b = <<>> THEN 0 ELSE 256 * FromBytes(SubSeq(b, 1, Len(b) - 1)) + b[Len(b)]

\* ''.join(parts)
RECURSIVE Join(_)
Join(parts) == IF parts = <<>> THEN <<>> ELSE Head(parts) \o Join(Tail(parts))

\* dict: key in d, d[key], d[key] = value (a new key goes last, an old one keeps its place)
HasKey(d, k) == \E i \in DOMAIN d : d[i].char = k
Lookup(d, k) == d[CHOOSE i \in DOMAIN d : d[i].char = k].code
DictSet(d, k, v) ==
    IF HasKey(d, k)
    THEN [i \in DOMAIN d |-> IF d[i].char = k THEN [char |-> k, code |-> v] ELSE d[i]]
    ELSE Append(d, [char |-> k, code |-> v])

(***************************************************************************)
(* build_frequency_dict: Counter(text).                                    *)
(***************************************************************************)
build_frequency_dict(t) ==
    [c \in Range(t) |-> Cardinality({i \in DOMAIN t : t[i] = c})]

(***************************************************************************)
(* HuffmanNode and build_huffman_tree.  heapq orders the nodes by __lt__,  *)
(* that is by freq alone: heappop returns a node that no other node is     *)
(* less than, and which of several equal-freq nodes it is depends on the   *)
(* heap's layout.  The model keeps every such choice: build_huffman_tree   *)
(* is the set of roots the loop can end with, and the empty set when       *)
(* priority_queue[0] raises IndexError (an empty frequency table).         *)
(***************************************************************************)
HuffmanNode(char, freq) == [char |-> char, freq |-> freq]

Merged(left, right) == [freq |-> left.freq + right.freq, left |-> left, right |-> right]

IsLeaf(node) == "char" \in DOMAIN node

\* the (left, right) pairs two successive heappops can return
PopPairs(pq) ==
    {p \in pq \X pq :
        /\ p[1] # p[2]
        /\ \A n \in pq : p[1].freq <= n.freq
        /\ \A n \in pq \ {p[1]} : p[2].freq <= n.freq}

RECURSIVE MergeLoop(_)
MergeLoop(pq) ==
    IF Cardinality(pq) <= 1 THEN pq
    ELSE UNION {MergeLoop((pq \ {p[1], p[2]}) \cup {Merged(p[1], p[2])}) : p \in PopPairs(pq)}

build_huffman_tree(freqs) ==
    MergeLoop({HuffmanNode(c, freqs[c]) : c \in DOMAIN freqs})

(***************************************************************************)
(* build_huffman_codes: the dict filled by the depth-first walk.           *)
(***************************************************************************)
\* mutant: the right child is walked with the left child's bit
RECURSIVE SameBitCodes(_, _, _)
SameBitCodes(node, code, codes) ==
    IF IsLeaf(node)
    THEN DictSet(codes, node.char, code)
    ELSE SameBitCodes(node.right, code \o <<0>>,
            SameBitCodes(node.left, code \o <<0>>, codes))

RECURSIVE build_huffman_codes(_, _, _)
build_huffman_codes(node, code, codes) ==
    IF IsLeaf(node)
    THEN DictSet(codes, node.char, code)
    ELSE build_huffman_codes(node.right, code \o <<1>>,
            build_huffman_codes(node.left, code \o <<0>>, codes))

(***************************************************************************)
(* encode_text, pad_encoded_text, get_byte_array, remove_padding.          *)
(***************************************************************************)
encode_text(t, codes) == Join([i \in DOMAIN t |-> Lookup(codes, t[i])])

\* mutant: no padding for a length that is a multiple of 8
ExtraPaddingMod8(encoded_text) == (8 - (Len(encoded_text) % 8)) % 8

\* extra_padding of pad_encoded_text
ExtraPadding(encoded_text) == 8 - (Len(encoded_text) % 8)

pad_encoded_text(encoded_text) ==
    Bin8(ExtraPadding(encoded_text)) \o encoded_text \o Zeros(ExtraPadding(encoded_text))

\* raises ValueError when the length is no multiple of 8
GetByteArrayRaises(padded_encoded_text) == (Len(padded_encoded_text) % 8) # 0

\* mutant: each group of 8 is read least-significant-bit-first
GetByteArrayLsbFirst(padded_encoded_text) ==
    [i \in 1..(Len(padded_encoded_text) \div 8) |->
        Int2([j \in 1..8 |-> padded_encoded_text[8 * i + 1 - j]])]

get_byte_array(padded_encoded_text) ==
    [i \in 1..(Len(padded_encoded_text) \div 8) |->
        Int2(SubSeq(padded_encoded_text, 8 * (i - 1) + 1, 8 * i))]

\* int(padded_encoded_text[:8], 2) raises ValueError on the empty string
RemovePaddingRaises(padded_encoded_text) == Take(padded_encoded_text, 8) = <<>>

\* encoded_text[:-extra_padding]: everything but the last extra_padding
\* characters, and the empty string when extra_padding is 0
remove_padding(padded_encoded_text) ==
    LET extra_padding == Int2(Take(padded_encoded_text, 8))
        encoded_text == Drop(padded_encoded_text, 8)
    IN  IF extra_padding = 0 \/ extra_padding >= Len(encoded_text) THEN <<>>
        ELSE Take(encoded_text, Len(encoded_text) - extra_padding)

(***************************************************************************)
(* decode_text.  DecodeLoop is the for loop: it returns decoded_text and   *)
(* the current_code left when the bits run out; decode_text returns the    *)
(* former and never looks at the latter.                                   *)
(***************************************************************************)
HasCode(codes, code) == \E i \in DOMAIN codes : codes[i].code = code

\* reverse_huffman_codes[code]: the last item with that code wins
ReverseLookup(codes, code) ==
    codes[CHOOSE i \in DOMAIN codes :
            /\ codes[i].code = code
            /\ \A j \in DOMAIN codes : codes[j].code = code => j <= i].char

RECURSIVE DecodeLoop(_, _, _, _)
DecodeLoop(encoded_text, codes, current_code, decoded_text) ==
    IF encoded_text = <<>>
    THEN [decoded_text |-> decoded_text, current_code |-> current_code]
    ELSE LET cc == Append(current_code, Head(encoded_text))
         IN  IF HasCode(codes, cc)
             THEN DecodeLoop(Tail(encoded_text), codes, <<>>,
                             Append(decoded_text, ReverseLookup(codes, cc)))
             ELSE DecodeLoop(Tail(encoded_text), codes, cc, decoded_text)

decode_text(encoded_text, codes) == DecodeLoop(encoded_text, codes, <<>>, <<>>).decoded_text

(***************************************************************************)
(* The container: str(huffman_codes).encode('utf-8') behind its length.    *)
(* repr of a one-character key is 'c' and of a code is '0101': the model's *)
(* symbols are letters, which repr neither escapes nor double-quotes.      *)
(***************************************************************************)
Quote == 39       \* '
Colon == 58       \* :
Comma == 44       \* ,
Space == 32
LBrace == 123     \* {
RBrace == 125     \* }
Digit0 == 48      \* '0'

ReprChar(c) == <<Quote, c, Quote>>

ReprCode(code) == <<Quote>> \o [i \in DOMAIN code |-> Digit0 + code[i]] \o <<Quote>>

ReprItem(item) == ReprChar(item.char) \o <<Colon, Space>> \o ReprCode(item.code)

\* str(huffman_codes)
StrDict(codes) ==
    <<LBrace>>
    \o Join([i \in DOMAIN codes |->
                IF i = 1 THEN ReprItem(codes[i]) ELSE <<Comma, Space>> \o ReprItem(codes[i])])
    \o <<RBrace>>

\* what compress_file writes to output_path (lines 102-106)
WriteContainer(codes, bytes) ==
    ToBytes4(Len(StrDict(codes))) \o StrDict(codes) \o bytes

(***************************************************************************)
(* ast.literal_eval on the table bytes.  The parser accepts the literals   *)
(* str() writes for a dict of one-character keys and string values, and    *)
(* rejects (SyntaxError) every other input it is given here: the empty     *)
(* string and the proper prefixes of such a literal, none of which closes  *)
(* the brace it opens.                                                     *)
(***************************************************************************)
ParseFail == [ok |-> FALSE, val |-> <<>>, next |-> 0]

\* a quoted string starting at pos: its characters and the position after it
ParseStr(s, pos) ==
    IF pos > Len(s) \/ s[pos] # Quote THEN ParseFail
    ELSE LET closers == {q \in (pos + 1)..Len(s) : s[q] = Quote}
         IN  IF closers = {} THEN ParseFail
             ELSE LET q == CHOOSE q \in closers : \A r \in closers : q <= r
                  IN  [ok |-> TRUE, val |-> SubSeq(s, pos + 1, q - 1), next |-> q + 1]

At(s, pos, c) == pos <= Len(s) /\ s[pos] = c

RECURSIVE ParseItems(_, _, _)
ParseItems(s, pos, acc) ==
    LET k == ParseStr(s, pos)
        v == ParseStr(s, k.next + 2)
        got == DictSet(acc, k.val[1], [i \in DOMAIN v.val |-> v.val[i] - Digit0])
    IN  IF ~k.ok \/ Len(k.val) # 1 \/ ~At(s, k.next, Colon) \/ ~At(s, k.next + 1, Space)
        THEN [ok |-> FALSE, codes |-> <<>>]
        ELSE IF ~v.ok THEN [ok |-> FALSE, codes |-> <<>>]
        ELSE IF At(s, v.next, RBrace) /\ v.next = Len(s) THEN [ok |-> TRUE, codes |-> got]
        ELSE IF At(s, v.next, Comma) /\ At(s, v.next + 1, Space)
        THEN ParseItems(s, v.next + 2, got)
        ELSE [ok |-> FALSE, codes |-> <<>>]

\* mutant: no table bytes read as the empty table
LenientEval(s) ==
    IF s = <<>> \/ s = <<LBrace, RBrace>> THEN [ok |-> TRUE, codes |-> <<>>]
    ELSE IF At(s, 1, LBrace) THEN ParseItems(s, 2, <<>>)
    ELSE [ok |-> FALSE, codes |-> <<>>]

literal_eval(s) ==
    IF s = <<LBrace, RBrace>> THEN [ok |-> TRUE, codes |-> <<>>]
    ELSE IF At(s, 1, LBrace) THEN ParseItems(s, 2, <<>>)
    ELSE [ok |-> FALSE, codes |-> <<>>]

(***************************************************************************)
(* compress_file on the text of input_path with the tree the heap gave,    *)
(* and decompress_file on the bytes of input_path.  Both return what they  *)
(* raise ("none" when they return) and what they write to output_path;     *)
(* each opens output_path only after everything that can raise.            *)
(***************************************************************************)
compress_file(t, tree) ==
    LET codes == build_huffman_codes(tree, <<>>, <<>>)
        padded_encoded_text == pad_encoded_text(encode_text(t, codes))
    IN  IF GetByteArrayRaises(padded_encoded_text)
        THEN [err |-> "ValueError", written |-> FALSE, data |-> <<>>]
        ELSE [err |-> "none", written |-> TRUE,
              data |-> WriteContainer(codes, get_byte_array(padded_encoded_text))]

\* the while loop of lines 114-120
ExpandBytes(bytes) == Join([i \in DOMAIN bytes |-> Bin8(bytes[i])])

decompress_file(data) ==
    LET codes_length == FromBytes(Take(data, 4))
        parsed == literal_eval(Take(Drop(data, 4), codes_length))
        bs == ExpandBytes(Drop(data, 4 + codes_length))
    IN  IF ~parsed.ok THEN [err |-> "SyntaxError", written |-> FALSE, data |-> <<>>]
        ELSE IF RemovePaddingRaises(bs)
        THEN [err |-> "ValueError", written |-> FALSE, data |-> <<>>]
        ELSE [err |-> "none", written |-> TRUE,
              data |-> decode_text(remove_padding(bs), parsed.codes)]

(***************************************************************************)
(* The codec run: a text is compressed, the container (or a truncation of  *)
(* it) is handed to decompress_file.                                       *)
(***************************************************************************)
CodecIdle ==
    /\ text = <<>> /\ pc = "idle" /\ frequency = <<>> /\ huffman_tree = <<>>
    /\ huffman_codes = <<>> /\ container = <<>> /\ err = "none" /\ upload = <<>>
    /\ output = <<>>

BitsIdle ==
    /\ bits = <<>> /\ bpc = "idle" /\ padded = <<>> /\ byte_array = <<>>
    /\ bit_string = <<>> /\ unpadded = <<>> /\ table = <<>> /\ decoded = <<>>

WebIdle == fs = <<>> /\ req = <<>>

Init ==
    /\ text \in Texts
    /\ pc = "input"
    /\ frequency = <<>> /\ huffman_tree = <<>> /\ huffman_codes = <<>>
    /\ container = <<>> /\ err = "none" /\ upload = <<>> /\ output = <<>>
    /\ BitsIdle /\ WebIdle

\* compress_file(input_path, output_path), lines 90-106.  It stops in
\* build_huffman_tree (pc "tree_failed") when priority_queue[0] raises.
CompressFile ==
    /\ pc = "input"
    /\ frequency' = build_frequency_dict(text)
    /\ LET trees == build_huffman_tree(build_frequency_dict(text))
       IN  IF trees = {}
           THEN /\ pc' = "tree_failed"
                /\ err' = "IndexError"
                /\ UNCHANGED <<huffman_tree, huffman_codes, container>>
           ELSE \E tree \in trees :
                  LET r == compress_file(text, tree)
                  IN  /\ huffman_tree' = tree
                      /\ huffman_codes' = build_huffman_codes(tree, <<>>, <<>>)
                      /\ err' = r.err
                      /\ container' = r.data
                      /\ pc' = IF r.written THEN "compressed" ELSE "compress_failed"
    /\ UNCHANGED <<text, upload, output, bitVars, webVars>>

\* the container reaches decompress_file whole (k = Len) or cut after k bytes
Upload ==
    /\ pc = "compressed"
    /\ \E k \in 0..Len(container) : upload' = Take(container, k)
    /\ pc' = "uploaded"
    /\ UNCHANGED <<text, frequency, huffman_tree, huffman_codes, container, err, output,
                   bitVars, webVars>>

\* decompress_file(input_path, output_path), lines 108-126
DecompressFile ==
    /\ pc = "uploaded"
    /\ LET r == decompress_file(upload)
       IN  /\ err' = r.err
           /\ output' = r.data
           /\ pc' = IF r.written THEN "decompressed" ELSE "decompress_failed"
    /\ UNCHANGED <<text, frequency, huffman_tree, huffman_codes, container, upload,
                   bitVars, webVars>>

Next == CompressFile \/ Upload \/ DecompressFile

Spec == Init /\ [][Next]_vars

(***************************************************************************)
(* The tree run: build_huffman_tree and build_huffman_codes on a free      *)
(* frequency table (any counts, the empty table included).                 *)
(***************************************************************************)
InitTree ==
    /\ frequency \in FreqTables
    /\ pc = "table"
    /\ text = <<>> /\ huffman_tree = <<>> /\ huffman_codes = <<>>
    /\ container = <<>> /\ err = "none" /\ upload = <<>> /\ output = <<>>
    /\ BitsIdle /\ WebIdle

\* build_huffman_tree(frequency), lines 26-38
BuildHuffmanTree ==
    /\ pc = "table"
    /\ IF build_huffman_tree(frequency) = {}
       THEN pc' = "tree_failed" /\ err' = "IndexError" /\ UNCHANGED huffman_tree
       ELSE /\ huffman_tree' \in build_huffman_tree(frequency)
            /\ pc' = "tree"
            /\ UNCHANGED err
    /\ UNCHANGED <<text, frequency, huffman_codes, container, upload, output, bitVars, webVars>>

\* build_huffman_codes(huffman_tree), lines 40-49
BuildHuffmanCodes ==
    /\ pc = "tree"
    /\ huffman_codes' = build_huffman_codes(huffman_tree, <<>>, <<>>)
    /\ pc' = "codes"
    /\ UNCHANGED <<text, frequency, huffman_tree, container, err, upload, output,
                   bitVars, webVars>>

NextTree == BuildHuffmanTree \/ BuildHuffmanCodes

SpecTree == InitTree /\ [][NextTree]_vars

(***************************************************************************)
(* The bit-level run: a free bit-string goes through pad_encoded_text and  *)
(* get_byte_array, back through the byte loop of decompress_file and       *)
(* remove_padding, and into decode_text with a free code table.            *)
(***************************************************************************)
\* the code tables build_huffman_codes produces for the frequency tables
Tables ==
    {build_huffman_codes(tree, <<>>, <<>>) :
        tree \in UNION {build_huffman_tree(f) : f \in FreqTables}}

InitBits ==
    /\ bits \in BitStrings
    /\ bpc = "bits"
    /\ padded = <<>> /\ byte_array = <<>> /\ bit_string = <<>> /\ unpadded = <<>>
    /\ table = <<>> /\ decoded = <<>>
    /\ CodecIdle /\ WebIdle

\* pad_encoded_text(encoded_text), lines 54-58
PadEncodedText ==
    /\ bpc = "bits"
    /\ padded' = pad_encoded_text(bits)
    /\ bpc' = "padded"
    /\ UNCHANGED <<bits, byte_array, bit_string, unpadded, table, decoded, codecVars, webVars>>

\* get_byte_array(padded_encoded_text), lines 60-68
GetByteArray ==
    /\ bpc = "padded"
    /\ IF GetByteArrayRaises(padded)
       THEN bpc' = "pack_failed" /\ UNCHANGED byte_array
       ELSE bpc' = "packed" /\ byte_array' = get_byte_array(padded)
    /\ UNCHANGED <<bits, padded, bit_string, unpadded, table, decoded, codecVars, webVars>>

\* the byte loop of decompress_file, lines 114-120
ReadBytes ==
    /\ bpc = "packed"
    /\ bit_string' = ExpandBytes(byte_array)
    /\ bpc' = "expanded"
    /\ UNCHANGED <<bits, padded, byte_array, unpadded, table, decoded, codecVars, webVars>>

\* remove_padding(bit_string), lines 70-74
RemovePadding ==
    /\ bpc = "expanded"
    /\ IF RemovePaddingRaises(bit_string)
       THEN bpc' = "unpad_failed" /\ UNCHANGED unpadded
       ELSE bpc' = "unpadded" /\ unpadded' = remove_padding(bit_string)
    /\ UNCHANGED <<bits, padded, byte_array, bit_string, table, decoded, codecVars, webVars>>

\* decode_text(encoded_text, huffman_codes), lines 76-88: it has no raise
DecodeText ==
    /\ bpc = "unpadded"
    /\ \E codes \in Tables :
        /\ table' = codes
        /\ decoded' = decode_text(unpadded, codes)
    /\ bpc' = "decoded"
    /\ UNCHANGED <<bits, padded, byte_array, bit_string, unpadded, codecVars, webVars>>

NextBits == PadEncodedText \/ GetByteArray \/ ReadBytes \/ RemovePadding \/ DecodeText

SpecBits == InitBits /\ [][NextBits]_vars

(***************************************************************************)
(* The web run: NumRequests requests to /compress and /decompress, handled *)
(* by concurrent threads over one temp directory.  A step of a handler is  *)
(* one file-system call, so the threads interleave between the calls.      *)
(*                                                                         *)
(* A filename is a sequence of parts, ".huff" and ".txt" being parts of    *)
(* their own: <<"x", ".huff">> is 'x.huff' and <<>> is ''.  The temp       *)
(* directory fs maps the paths that exist to their contents.               *)
(*                                                                         *)
(* File contents are kept by kind, not byte by byte: <<"ab">> is a text of *)
(* two or more distinct symbols, <<"one">> a text of one repeated symbol,  *)
(* <<"empty">> the empty file, and <<"huff">> \o c the container that      *)
(* compress_file writes for c.  CompressOutcomes and DecompressOutcomes    *)
(* give what the two file functions do on each kind, as the codec run      *)
(* above computes it (CodecSummary).                                       *)
(***************************************************************************)
Requests == 1..NumRequests

FileNames == {<<>>, <<"x">>, <<"x", ".huff">>}
TextUploads == {<<"ab">>, <<"one">>, <<"empty">>}
ContainerUploads == {<<"huff", "ab">>, <<"huff", "one">>, <<"ab">>}

\* get_temp_path(filename): os.path.join(tempfile.gettempdir(), filename)
get_temp_path(filename) == <<"tmp">> \o filename

\* filename.replace('.huff', '.txt')
ReplaceHuff(filename) ==
    [i \in DOMAIN filename |-> IF filename[i] = ".huff" THEN ".txt" ELSE filename[i]]

InputPath(q) == get_temp_path(q.filename)

OutputPath(q) ==
    IF q.kind = "compress"
    THEN get_temp_path(q.filename \o <<".huff">>)
    ELSE get_temp_path(ReplaceHuff(q.filename))

\* compress_file on a file of content c.  A container read in text mode
\* decodes or raises UnicodeDecodeError, depending on its payload bytes.
CompressOutcomes(c) ==
    IF c = <<"empty">> THEN {[err |-> "IndexError", data |-> <<>>]}
    ELSE IF Head(c) = "huff"
    THEN {[err |-> "none", data |-> <<"huff">> \o c],
          [err |-> "UnicodeDecodeError", data |-> <<>>]}
    ELSE {[err |-> "none", data |-> <<"huff">> \o c]}

\* decompress_file on a file of content c.  The container of a one-symbol
\* text decodes to the empty text; a file that is no container fails at the
\* parse of the table.
DecompressOutcomes(c) ==
    IF Head(c) # "huff" THEN {[err |-> "SyntaxError", data |-> <<>>]}
    ELSE IF Tail(c) = <<"one">> THEN {[err |-> "none", data |-> <<"empty">>]}
    ELSE {[err |-> "none", data |-> Tail(c)]}

CoreOutcomes(q, c) ==
    IF q.kind = "compress" THEN CompressOutcomes(c) ELSE DecompressOutcomes(c)

NewRequest(kind, has_file, filename, data) ==
    [kind |-> kind, has_file |-> has_file, filename |-> filename, data |-> data,
     pc |-> "start", buf |-> <<>>, error |-> "none", status |-> 0, body |-> <<>>]

RequestInputs ==
    {NewRequest("compress", FALSE, <<>>, <<"empty">>)}
    \cup {NewRequest("compress", TRUE, f, d) : f \in FileNames, d \in TextUploads}
    \cup {NewRequest("decompress", TRUE, f, d) : f \in FileNames, d \in ContainerUploads}

InitWeb ==
    /\ fs = <<>>
    /\ req \in [Requests -> RequestInputs]
    /\ CodecIdle /\ BitsIdle

FileExists(path) == path \in DOMAIN fs

\* open(path, 'w'/'wb').write(data), file.save(path)
WriteFile(path, data) == [p \in DOMAIN fs \cup {path} |-> IF p = path THEN data ELSE fs[p]]

\* os.remove(path), for a path that exists
RemoveFile(path) == [p \in DOMAIN fs \ {path} |-> fs[p]]

Raise(r, e) == req' = [req EXCEPT ![r].pc = "clean_input", ![r].error = e]

\* lines 134-142 / 165-173: the two early returns and the paths
Begin(r) ==
    /\ req[r].pc = "start"
    /\ req' = IF ~req[r].has_file
              THEN [req EXCEPT ![r].pc = "done", ![r].status = 400,
                               ![r].body = <<"No file part">>]
              ELSE IF req[r].filename = <<>>
              THEN [req EXCEPT ![r].pc = "done", ![r].status = 400,
                               ![r].body = <<"No selected file">>]
              ELSE [req EXCEPT ![r].pc = "save"]
    /\ UNCHANGED <<fs, codecVars, bitVars>>

\* file.save(input_path), lines 145 / 176
Save(r) ==
    /\ req[r].pc = "save"
    /\ fs' = WriteFile(InputPath(req[r]), req[r].data)
    /\ req' = [req EXCEPT ![r].pc = "core_read"]
    /\ UNCHANGED <<codecVars, bitVars>>

\* compress_file / decompress_file: open(input_path) and read, lines 91-92 / 109-120
CoreRead(r) ==
    /\ req[r].pc = "core_read"
    /\ IF FileExists(InputPath(req[r]))
       THEN req' = [req EXCEPT ![r].pc = "core_write", ![r].buf = fs[InputPath(req[r])]]
       ELSE Raise(r, "FileNotFoundError")
    /\ UNCHANGED <<fs, codecVars, bitVars>>

\* compress_file / decompress_file: the transform, then open(output_path)
\* and write, lines 94-106 / 122-126
CoreWrite(r) ==
    /\ req[r].pc = "core_write"
    /\ \E o \in CoreOutcomes(req[r], req[r].buf) :
        IF o.err = "none"
        THEN /\ fs' = WriteFile(OutputPath(req[r]), o.data)
             /\ req' = [req EXCEPT ![r].pc = "send"]
        ELSE Raise(r, o.err) /\ UNCHANGED fs
    /\ UNCHANGED <<codecVars, bitVars>>

\* response = send_file(output_path, as_attachment=True), lines 148 / 179:
\* the file is opened here, and what it holds is the body of the response
SendFile(r) ==
    /\ req[r].pc = "send"
    /\ IF FileExists(OutputPath(req[r]))
       THEN req' = [req EXCEPT ![r].pc = "remove_input", ![r].body = fs[OutputPath(req[r])]]
       ELSE Raise(r, "FileNotFoundError")
    /\ UNCHANGED <<fs, codecVars, bitVars>>

\* os.remove(input_path), lines 151 / 182
RemoveInput(r) ==
    /\ req[r].pc = "remove_input"
    /\ IF FileExists(InputPath(req[r]))
       THEN /\ fs' = RemoveFile(InputPath(req[r]))
            /\ req' = [req EXCEPT ![r].pc = "remove_output"]
       ELSE Raise(r, "FileNotFoundError") /\ UNCHANGED fs
    /\ UNCHANGED <<codecVars, bitVars>>

\* os.remove(output_path) and return response, lines 152-154 / 183-185
RemoveOutput(r) ==
    /\ req[r].pc = "remove_output"
    /\ IF FileExists(OutputPath(req[r]))
       THEN /\ fs' = RemoveFile(OutputPath(req[r]))
            /\ req' = [req EXCEPT ![r].pc = "done", ![r].status = 200]
       ELSE Raise(r, "FileNotFoundError") /\ UNCHANGED fs
    /\ UNCHANGED <<codecVars, bitVars>>

\* except: if os.path.exists(input_path): os.remove(input_path), lines 157-158 / 188-189
CleanInput(r) ==
    /\ req[r].pc = "clean_input"
    /\ fs' = RemoveFile(InputPath(req[r]))
    /\ req' = [req EXCEPT ![r].pc = "clean_output"]
    /\ UNCHANGED <<codecVars, bitVars>>

\* if os.path.exists(output_path): os.remove(output_path); return str(e), 500,
\* lines 159-161 / 190-192
CleanOutput(r) ==
    /\ req[r].pc = "clean_output"
    /\ fs' = RemoveFile(OutputPath(req[r]))
    /\ req' = [req EXCEPT ![r].pc = "done", ![r].status = 500,
                          ![r].body = <<req[r].error>>]
    /\ UNCHANGED <<codecVars, bitVars>>

NextWeb ==
    \E r \in Requests :
        \/ Begin(r)
        \/ Save(r)
        \/ CoreRead(r)
        \/ CoreWrite(r)
        \/ SendFile(r)
        \/ RemoveInput(r)
        \/ RemoveOutput(r)
        \/ CleanInput(r)
        \/ CleanOutput(r)

SpecWeb == InitWeb /\ [][NextWeb]_vars

(***************************************************************************)
(* Properties of the codec run (Spec) and of the tree run (SpecTree).      *)
(***************************************************************************)
IsPrefix(a, b) == Len(a) <= Len(b) /\ SubSeq(b, 1, Len(a)) = a

Compressed == pc \in {"compressed", "uploaded", "decompressed", "decompress_failed"}
Decompressing == pc \in {"decompressed", "decompress_failed"}

\* where the serialized table ends in the written container
TableEnd == 4 + FromBytes(Take(container, 4))

\* what the codec does with a whole container, by kind of text: no container
\* for the empty text, the empty text back for a text of one repeated
\* symbol, the text back for any other
CodecSummary ==
    /\ pc # "input" => (pc = "tree_failed" <=> text = <<>>)
    /\ pc # "compress_failed"
    /\ (Decompressing /\ upload = container) =>
        /\ pc = "decompressed"
        /\ output = IF Cardinality(Range(text)) = 1 THEN <<>> ELSE text

\* C1: for every text, empty and one-symbol texts included, compress_file
\* succeeds and decompress_file on the whole container writes the text back.
C1_RoundTrip ==
    /\ pc \notin {"tree_failed", "compress_failed"}
    /\ (Decompressing /\ upload = container) => (pc = "decompressed" /\ output = text)

\* C2: for every non-empty frequency table the tree is built, the code
\* table has exactly one entry per symbol of the table and none for any
\* other symbol, and no code is a prefix of the code of a different symbol,
\* whichever of several equal-freq nodes the heap pops.
C2_PrefixFree ==
    /\ pc = "tree_failed" => DOMAIN frequency = {}
    /\ pc = "codes" =>
        /\ \A c \in DOMAIN frequency :
              Cardinality({i \in DOMAIN huffman_codes : huffman_codes[i].char = c}) = 1
        /\ \A i \in DOMAIN huffman_codes : huffman_codes[i].char \in DOMAIN frequency
        /\ \A i, j \in DOMAIN huffman_codes :
              i # j => ~IsPrefix(huffman_codes[i].code, huffman_codes[j].code)

\* C2 witness: codes were built for three symbols, two of them of equal freq
C2_Witness ==
    /\ pc = "codes"
    /\ Cardinality(DOMAIN frequency) = 3
    /\ \E c, d \in DOMAIN frequency : c # d /\ frequency[c] = frequency[d]

\* C3: every code of every code table is non-empty; a text of one repeated
\* symbol gives a one-leaf tree and a container that decodes back to it.
C3_SingleSymbol ==
    /\ Compressed => \A i \in DOMAIN huffman_codes : Len(huffman_codes[i].code) >= 1
    /\ (Cardinality(Range(text)) = 1 /\ pc # "input") =>
        /\ Compressed
        /\ IsLeaf(huffman_tree)
        /\ (Decompressing /\ upload = container) => (pc = "decompressed" /\ output = text)

\* C6: a container cut inside its 4-byte length prefix or inside its table
\* bytes makes decompress_file fail, at the parse of the table, and no output
\* is written.
C6_TruncatedTableFails ==
    (Decompressing /\ Len(upload) < TableEnd) =>
        (pc = "decompress_failed" /\ err = "SyntaxError" /\ output = <<>>)

\* C6 witness: decompress_file failed on a container cut inside the table bytes
C6_Witness == pc = "decompress_failed" /\ 4 < Len(upload) /\ Len(upload) < TableEnd

\* C7: on the empty text compress_file either fails with InvalidInput before
\* the tree builder is reached, writing nothing, or writes a container that
\* decompresses to the empty text; and when the tree builder is reached with
\* an empty table it fails with InvalidInput.
C7_EmptyInput ==
    /\ (text = <<>> /\ pc # "input") =>
        \/ pc = "compress_failed" /\ err = "InvalidInput" /\ container = <<>>
        \/ /\ Compressed
           /\ (Decompressing /\ upload = container) => (pc = "decompressed" /\ output = <<>>)
    /\ pc = "tree_failed" => err = "InvalidInput"

(***************************************************************************)
(* Properties of the bit-level run (SpecBits).                             *)
(***************************************************************************)
Padded == bpc # "bits"

\* the 8-bit padding-count field at the head of the padded string
PaddingField == Int2(Take(padded, 8))

C5_DecodeError ==
    bpc = "decoded" =>
        LET left == DecodeLoop(unpadded, table, <<>>, <<>>).current_code
        IN  ~(left # <<>> /\ ~HasCode(table, left))

\* C10: the padded string is a whole number of bytes, get_byte_array never
\* raises on it, and the bytes expanded most-significant-bit-first and put
\* through remove_padding are the original bit-string.
C10_PackUnpack ==
    /\ bpc \notin {"pack_failed", "unpad_failed"}
    /\ Padded => Len(padded) % 8 = 0
    /\ bpc \in {"unpadded", "decoded"} => unpadded = bits

\* C10 witness: a non-empty bit-string of a whole byte came back
C10_Witness == bpc = "unpadded" /\ Len(bits) = 8 /\ unpadded = bits /\ 1 \in Range(bits)

(***************************************************************************)
(* Properties of the web run (SpecWeb).                                    *)
(***************************************************************************)
\* the request got past the two early returns
Accepted(q) == q.has_file /\ q.filename # <<>>

\* the request was handled with no other request started
RanAlone(r) == \A o \in Requests \ {r} : req[o].pc = "start"

\* what the core call of the request does on the request's own upload
OwnOutcomes(q) == CoreOutcomes(q, q.data)

\* the response of the handler to the request when no other request runs:
\* the core call's error with 500, and 500 as well when /decompress is given
\* a filename without '.huff' (os.remove(output_path) finds the file gone)
AloneResponses(q) ==
    IF ~q.has_file THEN {[status |-> 400, body |-> <<"No file part">>]}
    ELSE IF q.filename = <<>> THEN {[status |-> 400, body |-> <<"No selected file">>]}
    ELSE {IF o.err # "none" THEN [status |-> 500, body |-> <<o.err>>]
          ELSE IF InputPath(q) = OutputPath(q)
          THEN [status |-> 500, body |-> <<"FileNotFoundError">>]
          ELSE [status |-> 200, body |-> o.data] : o \in OwnOutcomes(q)}

\* the handlers, run one request at a time, respond as AloneResponses says
AloneAgrees ==
    \A r \in Requests :
        (req[r].pc = "done" /\ RanAlone(r)) =>
            [status |-> req[r].status, body |-> req[r].body] \in AloneResponses(req[r])

\* C8: under every interleaving each request gets the response it gets when
\* run alone (the transform of its own upload, with the same status), and
\* the upload it saved is still there, unchanged, when its core call reads it.
C8_Independence ==
    \A r \in Requests :
        /\ req[r].pc = "done" =>
              [status |-> req[r].status, body |-> req[r].body] \in AloneResponses(req[r])
        /\ req[r].pc = "core_read" =>
              /\ FileExists(InputPath(req[r]))
              /\ fs[InputPath(req[r])] = req[r].data

\* C9: a request handled alone, whatever its filename, whose core call
\* succeeds is answered 200 with the core call's output; it is answered 500
\* only when the core call failed; and when it is done neither of its temp
\* files is left.
C9_HandlerOutcome ==
    \A r \in Requests :
        (req[r].pc = "done" /\ RanAlone(r) /\ Accepted(req[r])) =>
            /\ \A o \in OwnOutcomes(req[r]) :
                  o.err = "none" => (req[r].status = 200 /\ req[r].body = o.data)
            /\ req[r].status = 500 => \E o \in OwnOutcomes(req[r]) : o.err # "none"
            /\ ~FileExists(InputPath(req[r]))
            /\ ~FileExists(OutputPath(req[r]))

====
